---- MODULE Spec2Model ----
(***************************************************************************)
(* Model of src/main.py: the connection ledger (connections_collection),   *)
(* the WebSocket registry (ConnectionManager) and the two handlers that    *)
(* use them, send_connection_request (POST /connect) and                   *)
(* websocket_endpoint (/ws/{user_id}); the two read handlers               *)
(* get_mutual_connections (GET /connections/{user_id}) and                 *)
(* get_nearby_users (GET /matches/{user_id}) over users_collection.        *)
(*                                                                         *)
(* All handlers are coroutines of one asyncio event loop.  A coroutine     *)
(* keeps the loop until it suspends in an await; the pymongo calls are     *)
(* synchronous and do not suspend.  The variable running holds the request *)
(* that currently owns the loop.                                           *)
(***************************************************************************)
EXTENDS Integers, Sequences, FiniteSets, TLC

\* ---------------------------------------------------------------- bounds
NumUsers == 2        \* user identifiers
MaxTasks == 4        \* handler tasks ever started (POST /connect requests and WebSockets)
MaxTasksSmall == 2   \* the same budget in the smaller specification SpecSmall
MaxPos == 2          \* positions 0..MaxPos of the "location" fields
MaxRadius == 2       \* max_distance values 1..MaxRadius of GET /matches

Users == 1..NumUsers
Calls == 1..MaxTasks
Channels == 1..MaxTasks
None == 0

Edges == Users \X Users

VARIABLES
    ledger,              \* connections_collection: number of documents per (from, to)
    active_connections,  \* manager.active_connections: user id -> channel, or None
    chan,                \* one record per WebSocket: its user, transport and handler
    calls,               \* one record per POST /connect request
    running,             \* the request that owns the event loop, or None
    users_collection,    \* users_collection: one entry per user identifier
    reply                \* the response of the last GET request served

vars == <<ledger, active_connections, chan, calls, running, users_collection, reply>>

\* ------------------------------------------------- ConnectionManager
\* connect, after accept: self.active_connections[user_id] = websocket
register_keep_first(active, id, ch) ==
    IF active[id] # None THEN active ELSE [active EXCEPT ![id] = ch]

register(active, id, ch) == [active EXCEPT ![id] = ch]

\* disconnect: self.active_connections.pop(user_id, None)
disconnect(active, id) == [active EXCEPT ![id] = None]

\* send_personal_message: websocket = self.active_connections.get(user_id)
lookup(active, id) == active[id]

\* ------------------------------------------------- connections_collection
\* find_one({"from": f, "to": t}) as a truth value
find_one(l, f, t) == l[<<f, t>>] > 0

\* insert_one({"from": f, "to": t}): the collection has no unique index
insert_one(l, f, t) == [l EXCEPT ![<<f, t>>] = @ + 1]

\* ------------------------------------------------- get_mutual_connections
\* n copies of x
RECURSIVE Copies(_, _)
Copies(x, n) == IF n = 0 THEN <<>> ELSE <<x>> \o Copies(x, n - 1)

RECURSIVE SentFrom(_, _, _)
SentFrom(l, id, x) ==
    IF x > NumUsers THEN <<>>
    ELSE Copies(x, l[<<id, x>>]) \o SentFrom(l, id, x + 1)

\* sent_ids = [c["to"] for c in find({"from": id})]: one element per document.
\* The ledger keeps no insertion order; the list is taken in identifier order.
sent_ids(l, id) == SentFrom(l, id, 1)

\* The list without the reverse lookup of lines 234-237
mutuals_unfiltered(l, id) == sent_ids(l, id)

\* lines 233-237: the to_id of sent_ids for which the reverse document exists
get_mutual_connections(l, id) ==
    SelectSeq(sent_ids(l, id), LAMBDA to_id : find_one(l, to_id, id))

\* ------------------------------------------------- get_nearby_users
\* Locations are points of a line and max_distance a number of its units.
Points == 0..MaxPos

Radii == 1..MaxRadius

\* The path parameter user_id is a string of 24 hexadecimal digits: the
\* identifier it spells and the case of its letters.
Forms == {"lower", "upper"}

\* ObjectId(user_id), line 148: bytes.fromhex reads both cases as the same
\* twelve bytes.
ObjectId(user_id) == user_id[1]

\* str(u["_id"]), line 165: the digits in lower case
str(oid) == <<oid, "lower">>

\* An entry of users_collection: whether a document with this _id exists,
\* whether it has a "location" field, and the position that field holds.
NoDoc == [doc |-> FALSE, location |-> FALSE, pos |-> 0]

\* The documents users_collection can hold: those signup writes (lines 98-110)
\* and documents without a "location" field written by other tools.
Docs ==
    {NoDoc, [doc |-> TRUE, location |-> FALSE, pos |-> 0]}
        \cup {[doc |-> TRUE, location |-> TRUE, pos |-> p] : p \in Points}

\* line 149: if not user or "location" not in user
LocationMissing_no_doc_only(user) == ~user.doc

LocationMissing(user) == ~user.doc \/ ~user.location

Distance(p, q) == IF p >= q THEN p - q ELSE q - p

\* The identifiers of S, nearest to p first
RECURSIVE NearestFirst(_, _, _)
NearestFirst(coll, S, p) ==
    IF S = {} THEN <<>>
    ELSE LET x == CHOOSE y \in S : \A z \in S :
                     \/ Distance(coll[y].pos, p) < Distance(coll[z].pos, p)
                     \/ /\ Distance(coll[y].pos, p) = Distance(coll[z].pos, p)
                        /\ y <= z
         IN <<x>> \o NearestFirst(coll, S \ {x}, p)

\* lines 154-161: find({"location": {"$near": ..., "$maxDistance": r}}) over
\* the 2dsphere index of line 40, which holds the documents with a location.
near(coll, p, r) ==
    NearestFirst(coll,
                 {x \in Users : /\ coll[x].doc /\ coll[x].location
                                /\ Distance(coll[x].pos, p) <= r},
                 p)

\* lines 163-177: the loop that skips the documents whose str(_id) equals the
\* path parameter
users_list(coll, user_id, r) ==
    SelectSeq(near(coll, coll[ObjectId(user_id)].pos, r),
              LAMBDA x : str(x) # user_id)

\* ------------------------------------------------- send_connection_request
\* if req.from_user_id == req.to_user_id: raise HTTPException(400)
IsSelf_never(f, t) == FALSE

IsSelf(f, t) == f = t

\* if not existing: insert_one(...)
NeedsInsert_always(existing) == TRUE

NeedsInsert(existing) == ~existing

\* reverse = find_one({"from": to, "to": from})
HasReverse(l, f, t) == find_one(l, t, f)

\* The pushes of the two branches, in program order, as <<user, kind>>
NotifyTargets(reverse, f, t) ==
    IF reverse THEN << <<f, "Match">>, <<t, "Match">> >>
               ELSE << <<t, "RequestReceived">> >>

\* The positions at which the coroutine gives up the event loop: the await of
\* websocket.send_text, and its return.  find_one and insert_one are blocking
\* calls without an await.
YieldsAt_everywhere(pc) == TRUE

YieldsAt(pc) == pc \in {"write", "done"}

\* The owner of the event loop after request t has moved to position pc
LoopAfter(t, pc) == IF YieldsAt(pc) THEN None ELSE t

\* A request: its position (pc), its arguments and locals (from, to, existing,
\* reverse), the pushes still to make (queue), the WebSocket of the push being
\* awaited (target) and its outcome (result).  History kept for the properties:
\* sent, the <<channel, kind>> notifications it has delivered; overlap, the
\* requests in flight when it arrived; live, which of its two users had a
\* registered open channel when it looked for the reverse edge.
IdleCall == [pc |-> "idle", from |-> None, to |-> None, existing |-> FALSE,
             reverse |-> FALSE, queue |-> <<>>, target |-> None, sent |-> <<>>,
             result |-> "none", overlap |-> {}, live |-> {}]

\* A WebSocket: the user_id of its path, its transport (state), the position
\* of its handler (hs) and the WebSocket of the echo being awaited (target).
\* History kept for the properties: superseded, whether connect() has since
\* registered another WebSocket for the same user_id.
IdleChan == [user |-> None, state |-> "unused", hs |-> "none", target |-> None,
             superseded |-> FALSE]

\* A response: the handler (op), its path parameter as the identifier (user)
\* and the spelling of its hexadecimal digits (form), max_distance (radius),
\* the outcome (status) and the list returned (items).
NoReply == [op |-> "none", user |-> None, form |-> "none", radius |-> 0,
            status |-> "none", items |-> <<>>]

Init ==
    /\ ledger = [e \in Edges |-> 0]
    /\ active_connections = [u \in Users |-> None]
    /\ chan = [c \in Channels |-> IdleChan]
    /\ calls = [t \in Calls |-> IdleCall]
    /\ running = None
    /\ users_collection = [u \in Users |-> NoDoc]
    /\ reply = NoReply

InFlight(t) == calls[t].pc \notin {"idle", "done"}

\* The number of tasks started so far
Started ==
    Cardinality({t \in Calls : calls[t].pc # "idle"})
        + Cardinality({c \in Channels : chan[c].state # "unused"})

\* User u has a registered channel whose transport is open.
Live(u) ==
    /\ active_connections[u] # None
    /\ chan[active_connections[u]].state = "open"

MayRun(t) == running = None \/ running = t

\* A client posts /connect: the request becomes a task of the event loop.
Submit(budget, t, f, to) ==
    /\ running = None
    /\ Started < budget
    /\ calls[t].pc = "idle"
    /\ \A t2 \in Calls : t2 < t => calls[t2].pc # "idle"
    /\ calls' = [calls EXCEPT ![t] = [IdleCall EXCEPT
                    !.pc = "start", !.from = f, !.to = to,
                    !.overlap = {t2 \in Calls : InFlight(t2)}]]
    /\ UNCHANGED <<ledger, active_connections, chan, running, users_collection, reply>>

\* lines 196-197
CheckSelf(t) ==
    /\ MayRun(t)
    /\ calls[t].pc = "start"
    /\ IF IsSelf(calls[t].from, calls[t].to)
       THEN /\ calls' = [calls EXCEPT ![t].pc = "done", ![t].result = "SelfConnection"]
            /\ running' = LoopAfter(t, "done")
       ELSE /\ calls' = [calls EXCEPT ![t].pc = "find"]
            /\ running' = LoopAfter(t, "find")
    /\ UNCHANGED <<ledger, active_connections, chan, users_collection, reply>>

\* lines 199-202
FindExisting(t) ==
    /\ MayRun(t)
    /\ calls[t].pc = "find"
    /\ calls' = [calls EXCEPT ![t].pc = "insert",
                              ![t].existing = find_one(ledger, calls[t].from, calls[t].to)]
    /\ running' = LoopAfter(t, "insert")
    /\ UNCHANGED <<ledger, active_connections, chan, users_collection, reply>>

\* lines 203-207
InsertEdge(t) ==
    /\ MayRun(t)
    /\ calls[t].pc = "insert"
    /\ ledger' = IF NeedsInsert(calls[t].existing)
                 THEN insert_one(ledger, calls[t].from, calls[t].to)
                 ELSE ledger
    /\ calls' = [calls EXCEPT ![t].pc = "reverse"]
    /\ running' = LoopAfter(t, "reverse")
    /\ UNCHANGED <<active_connections, chan, users_collection, reply>>

\* lines 209-214
FindReverse(t) ==
    /\ MayRun(t)
    /\ calls[t].pc = "reverse"
    /\ LET r == HasReverse(ledger, calls[t].from, calls[t].to)
       IN calls' = [calls EXCEPT ![t].pc = "notify", ![t].reverse = r,
                        ![t].queue = NotifyTargets(r, calls[t].from, calls[t].to),
                        ![t].live = {u \in {calls[t].from, calls[t].to} : Live(u)}]
    /\ running' = LoopAfter(t, "notify")
    /\ UNCHANGED <<ledger, active_connections, chan, users_collection, reply>>

\* send_personal_message with self.active_connections[user_id] in place of
\* .get(user_id): an identifier without an entry raises KeyError.
Notify_strict(t) ==
    /\ MayRun(t)
    /\ calls[t].pc = "notify"
    /\ calls[t].queue # <<>>
    /\ LET ws == lookup(active_connections, Head(calls[t].queue)[1])
       IN IF ws = None
          THEN /\ calls' = [calls EXCEPT ![t].pc = "done", ![t].queue = <<>>,
                                         ![t].result = "Error"]
               /\ running' = LoopAfter(t, "done")
          ELSE /\ calls' = [calls EXCEPT ![t].pc = "write", ![t].target = ws]
               /\ running' = LoopAfter(t, "write")
    /\ UNCHANGED <<ledger, active_connections, chan, users_collection, reply>>

\* send_personal_message, lines 55-56: the registry lookup of the next push.
\* Without a registered channel the coroutine goes on without suspending.
Notify(t) ==
    /\ MayRun(t)
    /\ calls[t].pc = "notify"
    /\ calls[t].queue # <<>>
    /\ LET ws == lookup(active_connections, Head(calls[t].queue)[1])
       IN IF ws = None
          THEN /\ calls' = [calls EXCEPT ![t].queue = Tail(@)]
               /\ running' = LoopAfter(t, "notify")
          ELSE /\ calls' = [calls EXCEPT ![t].pc = "write", ![t].target = ws]
               /\ running' = LoopAfter(t, "write")
    /\ UNCHANGED <<ledger, active_connections, chan, users_collection, reply>>

\* line 57: websocket.send_text completes on an open transport.
WriteDelivered(t) ==
    /\ MayRun(t)
    /\ calls[t].pc = "write"
    /\ chan[calls[t].target].state = "open"
    /\ calls' = [calls EXCEPT ![t].pc = "notify", ![t].target = None,
                    ![t].sent = Append(@, <<calls[t].target, Head(calls[t].queue)[2]>>),
                    ![t].queue = Tail(@)]
    /\ running' = LoopAfter(t, "notify")
    /\ UNCHANGED <<ledger, active_connections, chan, users_collection, reply>>

\* A failed push that undoes the edge the request has written
WriteRaises_rollback(t) ==
    /\ MayRun(t)
    /\ calls[t].pc = "write"
    /\ chan[calls[t].target].state = "closed"
    /\ calls' = [calls EXCEPT ![t].pc = "done", ![t].target = None,
                              ![t].queue = <<>>, ![t].result = "Error"]
    /\ running' = LoopAfter(t, "done")
    /\ ledger' = [ledger EXCEPT ![<<calls[t].from, calls[t].to>>] = 0]
    /\ UNCHANGED <<active_connections, chan, users_collection, reply>>

\* line 57: send_text on a transport the peer has left raises; nothing in
\* send_personal_message or send_connection_request catches it.
WriteRaises(t) ==
    /\ MayRun(t)
    /\ calls[t].pc = "write"
    /\ chan[calls[t].target].state = "closed"
    /\ calls' = [calls EXCEPT ![t].pc = "done", ![t].target = None,
                              ![t].queue = <<>>, ![t].result = "Error"]
    /\ running' = LoopAfter(t, "done")
    /\ UNCHANGED <<ledger, active_connections, chan, users_collection, reply>>

\* lines 217-220 and 223-226
Return(t) ==
    /\ MayRun(t)
    /\ calls[t].pc = "notify"
    /\ calls[t].queue = <<>>
    /\ calls' = [calls EXCEPT ![t].pc = "done",
                    ![t].result = IF calls[t].reverse THEN "connected" ELSE "requested"]
    /\ running' = LoopAfter(t, "done")
    /\ UNCHANGED <<ledger, active_connections, chan, users_collection, reply>>

\* ------------------------------------------------- websocket_endpoint
\* A client opens /ws/{u}: the handler starts and waits in websocket.accept().
Open(budget, c, u) ==
    /\ running = None
    /\ Started < budget
    /\ chan[c].state = "unused"
    /\ \A c2 \in Channels : c2 < c => chan[c2].state # "unused"
    /\ chan' = [chan EXCEPT ![c] = [IdleChan EXCEPT
                    !.user = u, !.state = "connecting", !.hs = "connect"]]
    /\ UNCHANGED <<ledger, active_connections, calls, running, users_collection, reply>>

\* The channels of user u that connect() has registered before
Registered(u) ==
    {c \in Channels : chan[c].user = u
                      /\ chan[c].hs \in {"receive", "echo", "returned", "echo_failed"}}

\* lines 245, 47-49: accept succeeds and the channel is registered.
Accept(c) ==
    /\ running = None
    /\ chan[c].hs = "connect"
    /\ chan[c].state = "connecting"
    /\ active_connections' = register(active_connections, chan[c].user, c)
    /\ chan' = [c2 \in Channels |->
                  IF c2 = c THEN [chan[c] EXCEPT !.state = "open", !.hs = "receive"]
                  ELSE IF c2 \in Registered(chan[c].user)
                       THEN [chan[c2] EXCEPT !.superseded = TRUE]
                       ELSE chan[c2]]
    /\ UNCHANGED <<ledger, calls, running, users_collection, reply>>

\* lines 245, 48, 257-262: accept raises (the client left during the
\* handshake); both outer handlers call manager.disconnect(user_id).
AcceptFails(c) ==
    /\ running = None
    /\ chan[c].hs = "connect"
    /\ active_connections' = disconnect(active_connections, chan[c].user)
    /\ chan' = [chan EXCEPT ![c].state = "closed", ![c].hs = "failed"]
    /\ UNCHANGED <<ledger, calls, running, users_collection, reply>>

\* The client closes its end of an open WebSocket.
ClientClose(c) ==
    /\ running = None
    /\ chan[c].state = "open"
    /\ chan' = [chan EXCEPT ![c].state = "closed"]
    /\ UNCHANGED <<ledger, active_connections, calls, running, users_collection, reply>>

\* lines 250, 253-255: receive_text raises WebSocketDisconnect, which the inner
\* "except Exception" catches; the loop breaks and the handler returns.
ReceiveDisconnect(c) ==
    /\ running = None
    /\ chan[c].hs = "receive"
    /\ chan[c].state = "closed"
    /\ chan' = [chan EXCEPT ![c].hs = "returned"]
    /\ UNCHANGED <<ledger, active_connections, calls, running, users_collection, reply>>

\* lines 250-252, 55-56: a text arrives and is echoed to the channel registered
\* for user_id.
ReceiveText(c) ==
    /\ running = None
    /\ chan[c].hs = "receive"
    /\ chan[c].state = "open"
    /\ LET ws == lookup(active_connections, chan[c].user)
       IN IF ws = None
          THEN UNCHANGED chan
          ELSE chan' = [chan EXCEPT ![c].hs = "echo", ![c].target = ws]
    /\ UNCHANGED <<ledger, active_connections, calls, running, users_collection, reply>>

\* line 57: the echo is written to an open transport.
EchoDelivered(c) ==
    /\ running = None
    /\ chan[c].hs = "echo"
    /\ chan[chan[c].target].state = "open"
    /\ chan' = [chan EXCEPT ![c].hs = "receive", ![c].target = None]
    /\ UNCHANGED <<ledger, active_connections, calls, running, users_collection, reply>>

\* lines 57, 253-255: the echo raises; the inner except breaks the loop, the
\* handler returns and the server closes its transport.
EchoRaises(c) ==
    /\ running = None
    /\ chan[c].hs = "echo"
    /\ chan[chan[c].target].state = "closed"
    /\ chan' = [chan EXCEPT ![c].hs = "echo_failed", ![c].target = None,
                            ![c].state = "closed"]
    /\ UNCHANGED <<ledger, active_connections, calls, running, users_collection, reply>>

\* ------------------------------------------------- read handlers
\* GET /connections/{u}, lines 228-239: no await, so one step of the loop.
GetMutuals(u) ==
    /\ running = None
    /\ reply' = [NoReply EXCEPT !.op = "mutuals", !.user = u, !.status = "ok",
                                !.items = get_mutual_connections(ledger, u)]
    /\ UNCHANGED <<ledger, active_connections, chan, calls, running, users_collection>>

\* GET /matches/{user_id}?max_distance=r, lines 146-177: no await.
GetNearby(u, form, r) ==
    /\ running = None
    /\ LET user_id == <<u, form>>
           user == users_collection[ObjectId(user_id)]
           q == [NoReply EXCEPT !.op = "matches", !.user = u, !.form = form,
                                !.radius = r]
       IN reply' = IF LocationMissing(user)
                   THEN [q EXCEPT !.status = "LocationUnavailable"]
                   ELSE [q EXCEPT !.status = "ok",
                                  !.items = users_list(users_collection, user_id, r)]
    /\ UNCHANGED <<ledger, active_connections, chan, calls, running, users_collection>>

\* POST /signup, lines 90-123: insert_one gives the new document a fresh _id
\* and a location.
Signup(u, p) ==
    /\ running = None
    /\ ~users_collection[u].doc
    /\ users_collection' = [users_collection EXCEPT
                                ![u] = [doc |-> TRUE, location |-> TRUE, pos |-> p]]
    /\ UNCHANGED <<ledger, active_connections, chan, calls, running, reply>>

NextWithin(budget) ==
    \/ \E t \in Calls, f \in Users, to \in Users : Submit(budget, t, f, to)
    \/ \E t \in Calls : CheckSelf(t)
    \/ \E t \in Calls : FindExisting(t)
    \/ \E t \in Calls : InsertEdge(t)
    \/ \E t \in Calls : FindReverse(t)
    \/ \E t \in Calls : Notify(t)
    \/ \E t \in Calls : WriteDelivered(t)
    \/ \E t \in Calls : WriteRaises(t)
    \/ \E t \in Calls : Return(t)
    \/ \E c \in Channels, u \in Users : Open(budget, c, u)
    \/ \E c \in Channels : Accept(c)
    \/ \E c \in Channels : AcceptFails(c)
    \/ \E c \in Channels : ClientClose(c)
    \/ \E c \in Channels : ReceiveDisconnect(c)
    \/ \E c \in Channels : ReceiveText(c)
    \/ \E c \in Channels : EchoDelivered(c)
    \/ \E c \in Channels : EchoRaises(c)

Next == NextWithin(MaxTasks)

Spec == Init /\ [][Next]_vars

NextSmall == NextWithin(MaxTasksSmall)

SpecSmall == Init /\ [][NextSmall]_vars

\* The ledger and its two handlers, without WebSockets: POST /connect requests
\* and GET /connections queries.
NextMutuals ==
    \/ \E t \in Calls, f \in Users, to \in Users : Submit(MaxTasksSmall, t, f, to)
    \/ \E t \in Calls : CheckSelf(t)
    \/ \E t \in Calls : FindExisting(t)
    \/ \E t \in Calls : InsertEdge(t)
    \/ \E t \in Calls : FindReverse(t)
    \/ \E t \in Calls : Notify(t)
    \/ \E t \in Calls : Return(t)
    \/ \E u \in Users : GetMutuals(u)

SpecMutuals == Init /\ [][NextMutuals]_vars

\* The user directory and its handlers: the database starts with any
\* documents.
InitNear ==
    /\ ledger = [e \in Edges |-> 0]
    /\ active_connections = [u \in Users |-> None]
    /\ chan = [c \in Channels |-> IdleChan]
    /\ calls = [t \in Calls |-> IdleCall]
    /\ running = None
    /\ users_collection \in [Users -> Docs]
    /\ reply = NoReply

NextNear ==
    \/ \E u \in Users, p \in Points : Signup(u, p)
    \/ \E u \in Users, form \in Forms, r \in Radii : GetNearby(u, form, r)

SpecNear == InitNear /\ [][NextNear]_vars

TypeOK ==
    /\ ledger \in [Edges -> Nat]
    /\ active_connections \in [Users -> Channels \cup {None}]
    /\ running \in Calls \cup {None}
    /\ users_collection \in [Users -> Docs]
    /\ reply.op \in {"none", "mutuals", "matches"}
    /\ reply.status \in {"none", "ok", "LocationUnavailable"}

\* ------------------------------------------------- vocabulary of the claims
Done(t) == calls[t].pc = "done"

Distinct(t) == calls[t].pc # "idle" /\ calls[t].from # calls[t].to

SamePair(t1, t2) == calls[t1].from = calls[t2].from /\ calls[t1].to = calls[t2].to

ReversePair(t1, t2) == calls[t1].from = calls[t2].to /\ calls[t1].to = calls[t2].from

\* Request t has executed lines 203-207.
PastInsert(t) ==
    \/ calls[t].pc \in {"reverse", "notify", "write"}
    \/ Done(t) /\ calls[t].result # "SelfConnection"

\* Request t has looked for both edges of its pair and found neither.
FoundNoEdge(t) ==
    /\ calls[t].pc \in {"notify", "write", "done"}
    /\ Distinct(t) /\ ~calls[t].existing /\ ~calls[t].reverse

\* The requests between users a and b, in either direction
Between(a, b) ==
    {t \in Calls : calls[t].pc # "idle" /\ {calls[t].from, calls[t].to} = {a, b}}

\* Requests t1 and t2 were in flight at the same time.
Concurrent(t1, t2) == t1 \in calls[t2].overlap \/ t2 \in calls[t1].overlap

\* The number of notifications of kind k that request t has delivered to user u
Received(t, u, k) ==
    Cardinality({i \in DOMAIN calls[t].sent :
                    /\ chan[calls[t].sent[i][1]].user = u
                    /\ calls[t].sent[i][2] = k})

\* The number of notifications of kind k that request t has delivered to channel c
ReceivedOn(t, c, k) ==
    Cardinality({i \in DOMAIN calls[t].sent : calls[t].sent[i] = <<c, k>>})

RECURSIVE SumOver(_, _, _)
SumOver(S, c, k) ==
    IF S = {} THEN 0
    ELSE LET t == CHOOSE x \in S : TRUE
         IN ReceivedOn(t, c, k) + SumOver(S \ {t}, c, k)

\* ------------------------------------------------- C1
\* C1: the ledger never holds more than one (A,B) edge; a request that reaches
\* the insert when no earlier request for (A,B) has passed it finds no edge
\* and writes exactly one, and every later one finds the edge and writes
\* nothing.
C1_AtMostOneEdge == \A e \in Edges : ledger[e] <= 1

C1_InsertStep ==
    \A t \in Calls :
        (calls[t].pc = "insert" /\ calls'[t].pc = "reverse") =>
            LET e == <<calls[t].from, calls[t].to>>
                earlier == \E t2 \in Calls \ {t} : SamePair(t, t2) /\ PastInsert(t2)
            IN /\ calls[t].existing = earlier
               /\ calls[t].existing => ledger' = ledger
               /\ ~calls[t].existing =>
                     /\ ledger[e] = 0
                     /\ ledger' = [ledger EXCEPT ![e] = 1]

\* C1: at most one (A,B) edge in every state, and every insert step behaves
\* as stated above.
C1_IdempotentEdge == []C1_AtMostOneEdge /\ [][C1_InsertStep]_vars

C1_Witness ==
    \E t1, t2 \in Calls :
        /\ t1 # t2 /\ Distinct(t1) /\ SamePair(t1, t2)
        /\ Done(t1) /\ Done(t2)
        /\ ~calls[t1].existing /\ calls[t2].existing
        /\ ledger[<<calls[t1].from, calls[t1].to>>] = 1

\* ------------------------------------------------- C3
\* C3: when two requests for the same (from,to) pair are in flight at the same
\* time and both have passed the insert, the ledger holds exactly one
\* (from,to) edge.
C3_ConcurrentSamePair ==
    \A t1, t2 \in Calls :
        (/\ t1 # t2 /\ Distinct(t1) /\ SamePair(t1, t2)
         /\ Concurrent(t1, t2)
         /\ PastInsert(t1) /\ PastInsert(t2))
        => ledger[<<calls[t1].from, calls[t1].to>>] = 1

C3_Witness ==
    \E t1, t2 \in Calls :
        /\ t1 # t2 /\ Distinct(t1) /\ SamePair(t1, t2)
        /\ Concurrent(t1, t2)
        /\ PastInsert(t1) /\ PastInsert(t2)
        /\ ledger[<<calls[t1].from, calls[t1].to>>] = 1

\* ------------------------------------------------- C7
\* C7: a request with from = to ends with SelfConnection straight from its
\* first step, has pushed nothing, and no (A,A) edge is ever in the ledger.
C7_SelfConnection ==
    /\ \A u \in Users : ledger[<<u, u>>] = 0
    /\ \A t \in Calls :
          (calls[t].pc # "idle" /\ calls[t].from = calls[t].to) =>
              /\ calls[t].pc \in {"start", "done"}
              /\ calls[t].sent = <<>> /\ calls[t].target = None
              /\ Done(t) => calls[t].result = "SelfConnection"

C7_Witness ==
    \E t \in Calls :
        /\ Done(t) /\ calls[t].from = calls[t].to
        /\ calls[t].result = "SelfConnection"
        /\ Live(calls[t].from)

\* ------------------------------------------------- C6
\* C6: the registry never points at a channel that a later register for the
\* same identifier has replaced, and every send (a notification push or an
\* echo) whose registry lookup happens after that register is written to the
\* channel registered last, never to a replaced one.
C6_NoReplacedEntry ==
    \A c \in Channels : chan[c].superseded => active_connections[chan[c].user] # c

C6_LookupStep ==
    /\ \A t \in Calls :
          (calls[t].pc = "notify" /\ calls'[t].pc = "write") =>
              /\ ~chan[calls'[t].target].superseded
              /\ calls'[t].target \in Registered(Head(calls[t].queue)[1])
    /\ \A c \in Channels :
          (chan[c].hs = "receive" /\ chan'[c].hs = "echo") =>
              /\ ~chan[chan'[c].target].superseded
              /\ chan'[c].target \in Registered(chan[c].user)

\* C6: no replaced channel is registered in any state, and no lookup step
\* picks one.
C6_ReplacedChannelNeverUsed == []C6_NoReplacedEntry /\ [][C6_LookupStep]_vars

\* A send is in flight for a user whose replaced channel is still open: a
\* notification push, or the echo of a text that arrived on the old channel.
C6_Witness ==
    \E old \in Channels :
        /\ chan[old].superseded /\ chan[old].state = "open"
        /\ \/ \E t \in Calls :
                 /\ calls[t].pc = "write"
                 /\ chan[old].user = Head(calls[t].queue)[1]
                 /\ calls[t].target # old
           \/ /\ chan[old].hs = "echo"
              /\ chan[old].target # old

\* ------------------------------------------------- C4
\* C4: every request between two different users ends by returning its
\* {connected} result, also when a push has failed.
C4_PushFailureAbsorbed ==
    \A t \in Calls :
        (Done(t) /\ Distinct(t)) => calls[t].result \in {"connected", "requested"}

\* ------------------------------------------------- C5
\* C5: once the handler of a channel has left its receive loop because the
\* client closed the WebSocket, the registry no longer maps the user to that
\* channel.
C5_ClosedChannelUnregistered ==
    \A c \in Channels :
        chan[c].hs = "returned" => active_connections[chan[c].user] # c

\* ------------------------------------------------- C10
\* C10: over all requests between A and B, one channel receives the Match
\* notification of the pair at most once.
C10_MatchAtMostOnce ==
    \A c \in Channels, a, b \in Users :
        a # b => SumOver(Between(a, b), c, "Match") <= 1

\* ------------------------------------------------- C2
\* Request t ran with no other request in flight.
Alone(t) ==
    /\ calls[t].overlap = {}
    /\ \A t2 \in Calls : t \notin calls[t2].overlap

\* C2: when (A,B) is requested with no prior edge and then, after it has
\* returned, (B,A) is requested, the second request returns connected = true;
\* and if A and B both had a registered open channel when it looked for the
\* reverse edge, it has delivered exactly one Match and no RequestReceived to
\* each of them.
C2_SecondRequestMatches ==
    \A t1, t2 \in Calls :
        (/\ t2 = t1 + 1
         /\ Distinct(t1) /\ ReversePair(t1, t2)
         /\ FoundNoEdge(t1) /\ Alone(t1) /\ Alone(t2)
         /\ Done(t2))
        => /\ calls[t2].result = "connected"
           /\ calls[t2].live = {calls[t2].from, calls[t2].to} =>
                 \A u \in calls[t2].live :
                     /\ Received(t2, u, "Match") = 1
                     /\ Received(t2, u, "RequestReceived") = 0

\* ------------------------------------------------- C8
\* C8: a request that found no reverse edge returns connected = false, has
\* delivered exactly one RequestReceived to `to` if `to` had a registered open
\* channel, and has delivered nothing to `from`.
C8_RequestReceivedOnly ==
    \A t \in Calls :
        (Done(t) /\ Distinct(t) /\ ~calls[t].reverse) =>
            /\ calls[t].result = "requested"
            /\ calls[t].to \in calls[t].live =>
                  Received(t, calls[t].to, "RequestReceived") = 1
            /\ Received(t, calls[t].to, "Match") = 0
            /\ Received(t, calls[t].from, "Match") = 0
            /\ Received(t, calls[t].from, "RequestReceived") = 0

\* ------------------------------------------------- C9
\* C9: when (A,B) and (B,A) are in flight at the same time, no edge of the
\* pair existed before and no other request concerns the pair, one of the two
\* returns connected = true and the other connected = false.
C9_ExactlyOneTriggersMatch ==
    \A t1, t2 \in Calls :
        (/\ t1 < t2
         /\ Distinct(t1) /\ ReversePair(t1, t2)
         /\ (FoundNoEdge(t1) \/ FoundNoEdge(t2))
         /\ t1 \in calls[t2].overlap
         /\ Between(calls[t1].from, calls[t1].to) = {t1, t2}
         /\ Done(t1) /\ Done(t2))
        => {calls[t1].result, calls[t2].result} = {"connected", "requested"}

\* ------------------------------------------------- C11
\* C11: a push to an identifier whose registered channel has a closed
\* transport does not raise, and when it is over the registry no longer maps
\* the identifier to that channel.
C11_SendFailureUnregisters ==
    [][\A t \in Calls :
          (/\ calls[t].pc = "write"
           /\ chan[calls[t].target].state = "closed"
           /\ calls'[t].pc # "write")
          => /\ calls'[t].result # "Error"
             /\ lookup(active_connections', chan[calls[t].target].user)
                    # calls[t].target]_vars

\* ------------------------------------------------- C12
\* C12: a push to an identifier without a registered channel does not raise:
\* the request goes on to its next push, nothing is delivered to any channel
\* and the registry is unchanged.
C12_UnregisteredStep ==
    \A t \in Calls :
        (/\ calls[t].pc = "notify" /\ calls[t].queue # <<>>
         /\ lookup(active_connections, Head(calls[t].queue)[1]) = None
         /\ calls'[t] # calls[t])
        => /\ calls'[t].pc = "notify"
           /\ calls'[t].queue = Tail(calls[t].queue)
           /\ calls'[t].result = "none"
           /\ calls'[t].sent = calls[t].sent
           /\ calls'[t].target = None
           /\ active_connections' = active_connections
           /\ chan' = chan

C12_UnregisteredSend == [][C12_UnregisteredStep]_vars

\* A request has pushed RequestReceived to a user without a registered channel
\* and has returned.
C12_Witness ==
    \E t \in Calls :
        /\ Done(t) /\ calls[t].result = "requested"
        /\ calls[t].live = {} /\ calls[t].sent = <<>>
        /\ active_connections[calls[t].to] = None

\* ------------------------------------------------- C13
\* The elements of a list
Range(q) == {q[i] : i \in DOMAIN q}

\* The identifiers x with both edges (id,x) and (x,id) in ledger l
BothEdges(l, id) == {x \in Users : l[<<id, x>>] > 0 /\ l[<<x, id>>] > 0}

\* C13: in every reachable ledger the list of get_mutual_connections(id) holds
\* exactly the x with both edges; B is a mutual of A iff A is one of B; and
\* once a request has found the reverse edge of its pair, each of its two
\* users is among the other's mutuals.
C13_MutualsOfLedger ==
    /\ \A id \in Users :
          Range(get_mutual_connections(ledger, id)) = BothEdges(ledger, id)
    /\ \A a, b \in Users :
          b \in Range(get_mutual_connections(ledger, a))
              <=> a \in Range(get_mutual_connections(ledger, b))
    /\ \A t \in Calls :
          (calls[t].pc \in {"notify", "write", "done"} /\ calls[t].reverse) =>
              /\ calls[t].to \in Range(get_mutual_connections(ledger, calls[t].from))
              /\ calls[t].from \in Range(get_mutual_connections(ledger, calls[t].to))

\* A GET /connections response is computed from the ledger of that moment.
C13_QueryStep ==
    (reply' # reply /\ reply'.op = "mutuals") =>
        Range(reply'.items) = BothEdges(ledger, reply'.user)

\* C13: the above in every state, and every GET /connections response lists
\* the mutuals of the current ledger.
C13_MutualsExact == []C13_MutualsOfLedger /\ [][C13_QueryStep]_vars

\* A request has completed a pair and GET /connections has listed the other
\* user for one of the two.
C13_Witness ==
    \E t \in Calls :
        /\ Done(t) /\ calls[t].reverse
        /\ reply.op = "mutuals" /\ reply.user = calls[t].to
        /\ reply.items = <<calls[t].from>>

\* ------------------------------------------------- C14
\* C14: the list GET /matches returns for user U never holds U itself.
C14_NeverSelf ==
    (reply.op = "matches" /\ reply.status = "ok") =>
        reply.user \notin Range(reply.items)

\* ------------------------------------------------- C15
\* C15: GET /matches for a user whose document has no location fails with
\* LocationUnavailable and returns no list.
C15_LocationUnavailable ==
    (/\ reply.op = "matches"
     /\ users_collection[reply.user].doc
     /\ ~users_collection[reply.user].location)
    => reply.status = "LocationUnavailable" /\ reply.items = <<>>

\* GET /matches has been served for a user without a location while another
\* user has one.
C15_Witness ==
    /\ reply.op = "matches"
    /\ users_collection[reply.user].doc /\ ~users_collection[reply.user].location
    /\ reply.status = "LocationUnavailable"
    /\ \E x \in Users : users_collection[x].location

\* ------------------------------------------------- C16
\* C16: a request that found the reverse edge while `to` had a registered open
\* channel, the only one `to` ever opened and still open and registered when
\* the request ends, has delivered one Match to `to`, whatever became of the
\* push to `from`.
C16_IndependentDelivery ==
    \A t \in Calls :
        (/\ Done(t) /\ calls[t].reverse
         /\ calls[t].to \in calls[t].live
         /\ Live(calls[t].to)
         /\ Cardinality({c \in Channels : chan[c].user = calls[t].to}) = 1)
        => Received(t, calls[t].to, "Match") = 1

\* ------------------------------------------------- C17
\* C17: from its first push on, the edge (from,to) of a request is in the
\* ledger exactly once, also after a push has failed.
C17_EdgeBeforePush ==
    \A t \in Calls :
        (\/ calls[t].pc \in {"notify", "write"}
         \/ Done(t) /\ calls[t].result # "SelfConnection")
        => ledger[<<calls[t].from, calls[t].to>>] = 1

\* No step of a request that is at its pushes changes the ledger.
C17_PushStep ==
    \A t \in Calls :
        (calls[t].pc \in {"notify", "write"} /\ calls'[t] # calls[t]) =>
            ledger' = ledger

\* C17: the edge is written before the first push, and the pushes, delivered,
\* skipped or failed, leave the ledger as it was.
C17_LedgerIndependentOfDelivery == []C17_EdgeBeforePush /\ [][C17_PushStep]_vars

\* A push of a request has failed and its edge is in the ledger.
C17_Witness ==
    \E t \in Calls :
        /\ Done(t) /\ calls[t].result = "Error"
        /\ ~calls[t].existing
        /\ ledger[<<calls[t].from, calls[t].to>>] = 1

\* ------------------------------------------------- C18
\* C18: a channel that is registered, open and not replaced by a later
\* register stays in the registry, also when another connection attempt for
\* the same user fails in connect.
C18_CleanupOwnChannelOnly ==
    \A c \in Channels :
        (/\ chan[c].hs \in {"receive", "echo"}
         /\ chan[c].state = "open"
         /\ ~chan[c].superseded)
        => active_connections[chan[c].user] = c

\* ------------------------------------------------- C19
\* A request that found both edges of its pair returns connected = true.
C19_LaterRequestConnected ==
    \A t \in Calls :
        (Done(t) /\ calls[t].existing /\ calls[t].reverse) =>
            calls[t].result = "connected"

\* No step removes a document from the ledger or a mutual from a list.
C19_GrowStep ==
    /\ \A e \in Edges : ledger'[e] >= ledger[e]
    /\ \A a \in Users :
          Range(get_mutual_connections(ledger, a))
              \subseteq Range(get_mutual_connections(ledger', a))

\* C19: the ledger only grows, every request made when both edges of its pair
\* exist returns connected = true, and a mutual stays a mutual.
C19_LedgerOnlyGrows == []C19_LaterRequestConnected /\ [][C19_GrowStep]_vars

====
